---- MODULE Spec2Model ----
(***************************************************************************)
(* Model of tourism/circuit_breaker.py: one CircuitBreaker shared by       *)
(* several threads.  The breaker's fields live in the record cb; every     *)
(* public method runs under the breaker's threading.Lock, and call() holds *)
(* that lock while the wrapped function executes.                          *)
(***************************************************************************)
EXTENDS Integers, FiniteSets, Sequences, TLC

\* ---------------------------------------------------------------- bounds
MaxThreshold == 3      \* failure_threshold ranges over 1..MaxThreshold
MaxRecovery == 2       \* recovery_timeout ranges over 1..MaxRecovery
MaxTime == 2           \* the clock is observed at the instants 0..MaxTime
MaxCalls == 4          \* call() is entered at most MaxCalls times
ScenarioSlack == 1     \* instants observed after the scenario's 62nd second

\* Scenario A of the specification: threshold 3, recovery 60 s.
ScenarioThreshold == 3
ScenarioRecovery == 60

Threads == {"t1", "t2"}
NoThread == "none"
None == -1             \* Python's None for last_failure_time

\* CircuitState
CLOSED == "closed"
OPEN == "open"
HALF_OPEN == "half_open"
CircuitState == {CLOSED, OPEN, HALF_OPEN}

\* How the wrapped function ends: it returns, raises an instance of
\* expected_exception, or raises anything else.
Outcomes == {"returns", "expected", "unexpected"}

VARIABLES
    cb,           \* the CircuitBreaker instance (its fields)
    now,          \* datetime.now()
    lock,         \* holder of cb._lock, or NoThread
    pc,           \* per thread: "idle", or "func" while inside func(*args)
    result,       \* per thread: how its last call() ended for the caller
    invocations,  \* number of times the wrapped function was invoked
    ev,           \* history: the last breaker operation and the breaker before it
    streak,       \* history: consecutive expected failures since Closed/0, or -1
    scenario,     \* history: progress through Scenario A, or -1
    instants,     \* the instants at which the clock is observed
    forced        \* history: time of a force_open() not yet followed by a
                  \* reset() or a completed call, or None

brkvars == <<cb, now, lock, pc, result, invocations, ev, streak, scenario,
             instants, forced>>

\* CircuitBreakerManager: the process-wide registry of named breakers.
VARIABLES
    instances,    \* CircuitBreakerManager._instances: name -> instance id, 0 if absent
    objs,         \* the CircuitBreaker objects constructed so far, by instance id
    rlock,        \* holder of CircuitBreakerManager._lock, or NoThread
    rpc,          \* per thread: position inside get_circuit_breaker
    rargs,        \* per thread: the arguments of its get_circuit_breaker call
    got,          \* per thread: what its last get_circuit_breaker returned
    gets,         \* number of get_circuit_breaker calls begun
    rev           \* history: the last registry step and the registry before it

regvars == <<instances, objs, rlock, rpc, rargs, got, gets, rev>>

\* call() statement by statement: each `+= 1` is a read followed by a write.
VARIABLES
    kb,           \* the CircuitBreaker instance (its fields)
    klock,        \* holder of kb._lock, or NoThread
    kpc,          \* per thread: the statement of call() it is at
    ktmp,         \* per thread: the counter value it has read
    ktally        \* history: calls begun, completed, and completed by a normal return

cntvars == <<kb, klock, kpc, ktmp, ktally>>

\* Search with database fallback.
VARIABLES
    sdb,          \* the TouristicResource table: resource -> inactive / active
    esb,          \* the registry's 'elasticsearch' CircuitBreaker
    slast         \* history: the last search, its arguments and what its caller got

srchvars == <<sdb, esb, slast>>

\* CacheService.
VARIABLES
    keyin,        \* the arguments of the two generate_key calls under comparison
    keyout,       \* the keys the two calls returned, or NoKeys
    cstore,       \* the cache backend: key -> stored value, or Missing
    cshadow,      \* history: key arguments -> the value last set and not removed since
    cnative,      \* history: every key argument used so far was a str or an int
    clast         \* history: the last cache operation and what its caller got

cachevars == <<keyin, keyout, cstore, cshadow, cnative, clast>>

\* MetricsCollector.
VARIABLES
    mlock,        \* holder of the collector's _lock, or NoThread
    mpc,          \* per thread: where it is inside get_all_stats, or "idle"
    mcounters,    \* _counters: metric -> value
    mgauges,      \* _gauges: the metrics that have a gauge value
    mstamp,       \* _cache_timestamp: None, or the time the stats cache was filled
    mlast         \* history: the last operation that returned and its snapshot

metvars == <<mlock, mpc, mcounters, mgauges, mstamp, mlast>>

\* The locks of the registry and of its breakers.
VARIABLES
    mgrlock,      \* holder of CircuitBreakerManager._lock, or NoThread
    cblock,       \* per breaker name: holder of that breaker's _lock
    linst,        \* the names in CircuitBreakerManager._instances
    lopen,        \* per breaker name: the breaker's state is OPEN
    lop,          \* per thread: the operation it is in and where
    lstarted      \* number of operations started so far

lkvars == <<mgrlock, cblock, linst, lopen, lop, lstarted>>

vars == <<brkvars, regvars, cntvars, srchvars, cachevars, metvars, lkvars>>

\* ------------------------------------------------------- CircuitBreaker
\* __init__
NewBreaker(threshold, timeout) ==
    [ failure_threshold |-> threshold,
      recovery_timeout  |-> timeout,
      failure_count     |-> 0,
      last_failure_time |-> None,
      state             |-> CLOSED,
      success_count     |-> 0,
      total_calls       |-> 0 ]

\* _should_attempt_reset
ShouldAttemptReset_Strict(b, t) ==
    IF b.last_failure_time = None
    THEN TRUE
    ELSE t - b.last_failure_time > b.recovery_timeout

ShouldAttemptReset(b, t) ==
    IF b.last_failure_time = None
    THEN TRUE
    ELSE t - b.last_failure_time >= b.recovery_timeout

\* _on_success
OnSuccess_Decrement(b) ==
    LET c == [b EXCEPT !.success_count = @ + 1] IN
    IF c.state = HALF_OPEN
    THEN [c EXCEPT !.state = CLOSED, !.failure_count = 0]
    ELSE IF c.state = CLOSED
         THEN [c EXCEPT !.failure_count = IF @ > 0 THEN @ - 1 ELSE 0]
         ELSE c

OnSuccess(b) ==
    LET c == [b EXCEPT !.success_count = @ + 1] IN
    IF c.state = HALF_OPEN
    THEN [c EXCEPT !.state = CLOSED, !.failure_count = 0]
    ELSE IF c.state = CLOSED
         THEN [c EXCEPT !.failure_count = 0]
         ELSE c

\* _on_failure
OnFailure_Above(b, t) ==
    LET c == [b EXCEPT !.failure_count = @ + 1, !.last_failure_time = t] IN
    IF c.state = HALF_OPEN
    THEN [c EXCEPT !.state = OPEN]
    ELSE IF c.failure_count > c.failure_threshold
         THEN [c EXCEPT !.state = OPEN]
         ELSE c

OnFailure_FirstTime(b, t) ==
    LET c == [b EXCEPT !.failure_count = @ + 1,
                       !.last_failure_time = IF @ = None THEN t ELSE @] IN
    IF c.state = HALF_OPEN
    THEN [c EXCEPT !.state = OPEN]
    ELSE IF c.failure_count >= c.failure_threshold
         THEN [c EXCEPT !.state = OPEN]
         ELSE c

OnFailure(b, t) ==
    LET c == [b EXCEPT !.failure_count = @ + 1, !.last_failure_time = t] IN
    IF c.state = HALF_OPEN
    THEN [c EXCEPT !.state = OPEN]
    ELSE IF c.failure_count >= c.failure_threshold
         THEN [c EXCEPT !.state = OPEN]
         ELSE c

\* call, lines 82-91: count the call, then the admission check.
CallAdmission_CountAdmitted(b, t) ==
    IF b.state = OPEN
    THEN IF ShouldAttemptReset(b, t)
         THEN [cb |-> [b EXCEPT !.total_calls = @ + 1, !.state = HALF_OPEN],
               admitted |-> TRUE]
         ELSE [cb |-> b, admitted |-> FALSE]
    ELSE [cb |-> [b EXCEPT !.total_calls = @ + 1], admitted |-> TRUE]

CallAdmission(b, t) ==
    LET c == [b EXCEPT !.total_calls = @ + 1] IN
    IF c.state = OPEN
    THEN IF ShouldAttemptReset(c, t)
         THEN [cb |-> [c EXCEPT !.state = HALF_OPEN], admitted |-> TRUE]
         ELSE [cb |-> c, admitted |-> FALSE]
    ELSE [cb |-> c, admitted |-> TRUE]

\* call, lines 93-104: the try/except around func(*args, **kwargs).  raised is
\* what reaches the caller.
CallOutcome_CountAll(b, outcome, t) ==
    CASE outcome = "returns"    -> [cb |-> OnSuccess(b), raised |-> "returned"]
      [] outcome = "expected"   -> [cb |-> OnFailure(b, t), raised |-> "expected"]
      [] outcome = "unexpected" -> [cb |-> OnFailure(b, t), raised |-> "unexpected"]

CallOutcome_RaiseOpen(b, outcome, t) ==
    CASE outcome = "returns"    -> [cb |-> OnSuccess(b), raised |-> "returned"]
      [] outcome = "expected"   ->
            [cb |-> OnFailure(b, t),
             raised |-> IF OnFailure(b, t).state = OPEN
                        THEN "CircuitBreakerError" ELSE "expected"]
      [] outcome = "unexpected" -> [cb |-> b, raised |-> "unexpected"]

CallOutcome(b, outcome, t) ==
    CASE outcome = "returns"    -> [cb |-> OnSuccess(b), raised |-> "returned"]
      [] outcome = "expected"   -> [cb |-> OnFailure(b, t), raised |-> "expected"]
      [] outcome = "unexpected" -> [cb |-> b, raised |-> "unexpected"]

\* reset
ResetFields_Lifetime(b) ==
    [b EXCEPT !.state = CLOSED, !.failure_count = 0, !.last_failure_time = None,
              !.success_count = 0, !.total_calls = 0]

ResetFields(b) ==
    [b EXCEPT !.state = CLOSED, !.failure_count = 0, !.last_failure_time = None]

\* force_open
ForceOpenFields_NoTime(b, t) ==
    [b EXCEPT !.state = OPEN]

ForceOpenFields_ZeroCount(b, t) ==
    [b EXCEPT !.state = OPEN, !.last_failure_time = t, !.failure_count = 0]

ForceOpenFields(b, t) ==
    [b EXCEPT !.state = OPEN, !.last_failure_time = t]

\* ------------------------------------------------------------- history
\* pre is the breaker just before the operation; entry is the breaker as the
\* call() that the operation belongs to found it (the lock is held from the
\* admission to the return, so the last event before a return is its admission).
Event(op, t) ==
    [ op |-> op, thread |-> t, at |-> now, pre |-> cb, inv |-> invocations,
      entry |-> IF op \in Outcomes THEN ev.pre ELSE cb ]

\* streak after an operation that left the breaker as b; failed says the
\* operation was a call whose function raised an expected exception.
NextStreak(b, failed) ==
    IF failed
    THEN IF streak >= 0 THEN streak + 1 ELSE -1
    ELSE IF b.state = CLOSED /\ b.failure_count = 0 THEN 0 ELSE -1

\* ------------------------------------------------------------- actions
\* call(): acquire the lock, count, admission check; a rejected call raises
\* CircuitBreakerError and releases the lock, an admitted one invokes func.
CallBegin(t) ==
    /\ pc[t] = "idle"
    /\ lock = NoThread
    /\ cb.total_calls < MaxCalls
    /\ LET a == CallAdmission(cb, now) IN
       /\ cb' = a.cb
       /\ IF a.admitted
          THEN /\ lock' = t
               /\ pc' = [pc EXCEPT ![t] = "func"]
               /\ result' = [result EXCEPT ![t] = "pending"]
               /\ invocations' = invocations + 1
               /\ ev' = Event("admit", t)
               /\ streak' = streak
               /\ scenario' = IF scenario \in 0..2 THEN scenario
                              ELSE IF scenario = 3 THEN 4 ELSE -1
          ELSE /\ lock' = NoThread
               /\ pc' = pc
               /\ result' = [result EXCEPT ![t] = "CircuitBreakerError"]
               /\ invocations' = invocations
               /\ ev' = Event("reject", t)
               /\ streak' = NextStreak(a.cb, FALSE)
               /\ scenario' = IF scenario = 3 THEN 4 ELSE -1
    /\ UNCHANGED <<now, instants, forced>>
    /\ UNCHANGED <<regvars, cntvars, srchvars, cachevars, metvars, lkvars>>

\* call(): func has finished; bookkeeping, release the lock, return or raise.
FuncReturn(t, outcome) ==
    /\ pc[t] = "func"
    /\ lock = t
    /\ LET o == CallOutcome(cb, outcome, now) IN
       /\ cb' = o.cb
       /\ result' = [result EXCEPT ![t] = o.raised]
       /\ ev' = Event(outcome, t)
       /\ streak' = NextStreak(o.cb, outcome = "expected")
    /\ scenario' = IF outcome = "expected" /\ scenario \in 0..2 /\ now = scenario
                   THEN scenario + 1 ELSE -1
    /\ lock' = NoThread
    /\ pc' = [pc EXCEPT ![t] = "idle"]
    /\ forced' = None
    /\ UNCHANGED <<now, invocations, instants>>
    /\ UNCHANGED <<regvars, cntvars, srchvars, cachevars, metvars, lkvars>>

Reset(t) ==
    /\ pc[t] = "idle"
    /\ lock = NoThread
    /\ cb' = ResetFields(cb)
    /\ ev' = Event("reset", t)
    /\ streak' = NextStreak(ResetFields(cb), FALSE)
    /\ scenario' = -1
    /\ forced' = None
    /\ UNCHANGED <<now, lock, pc, result, invocations, instants>>
    /\ UNCHANGED <<regvars, cntvars, srchvars, cachevars, metvars, lkvars>>

ForceOpen(t) ==
    /\ pc[t] = "idle"
    /\ lock = NoThread
    /\ cb' = ForceOpenFields(cb, now)
    /\ ev' = Event("force_open", t)
    /\ streak' = NextStreak(ForceOpenFields(cb, now), FALSE)
    /\ scenario' = -1
    /\ forced' = now
    /\ UNCHANGED <<now, lock, pc, result, invocations, instants>>
    /\ UNCHANGED <<regvars, cntvars, srchvars, cachevars, metvars, lkvars>>

\* The clock moves on to a later observed instant.
Tick ==
    /\ \E t \in instants : t > now /\ now' = t
    /\ UNCHANGED <<cb, lock, pc, result, invocations, ev, streak, scenario, instants,
                   forced>>
    /\ UNCHANGED <<regvars, cntvars, srchvars, cachevars, metvars, lkvars>>

Next ==
    \/ \E t \in Threads : CallBegin(t)
    \/ \E t \in Threads, o \in Outcomes : FuncReturn(t, o)
    \/ \E t \in Threads : Reset(t)
    \/ \E t \in Threads : ForceOpen(t)
    \/ Tick

\* ------------------------------------------------- CircuitBreakerManager
MaxGets == 3           \* get_circuit_breaker is called at most MaxGets times
MaxRegCalls == 1       \* call() is entered at most MaxRegCalls times in all

Names == {"redis", "elasticsearch", "database"}

\* The places that call get_circuit_breaker, with the arguments they pass:
\* ServiceCircuitBreakers' three accessors and the decorator
\* @with_circuit_breaker('database') of JsonLdImportService.import_resource.
CallSites ==
    { [site |-> "redis_circuit_breaker", name |-> "redis",
       failure_threshold |-> 3, recovery_timeout |-> 30],
      [site |-> "elasticsearch_circuit_breaker", name |-> "elasticsearch",
       failure_threshold |-> 5, recovery_timeout |-> 60],
      [site |-> "database_circuit_breaker", name |-> "database",
       failure_threshold |-> 10, recovery_timeout |-> 30],
      [site |-> "with_circuit_breaker", name |-> "database",
       failure_threshold |-> 5, recovery_timeout |-> 60] }

NoArgs == [site |-> "none", name |-> "none", failure_threshold |-> 0, recovery_timeout |-> 0]
NoInstance == [site |-> "none", name |-> "none", failure_threshold |-> 0,
               recovery_timeout |-> 0, id |-> 0]

\* with cls._lock
RegLockFree_NoLock(l) == TRUE

RegLockFree(l) == l = NoThread

\* name in cls._instances
RegistryHas_Never(insts, name) == FALSE

RegistryHas(insts, name) == insts[name] # 0

\* cls._instances[name] = CircuitBreaker(...)
RegistryAdd(insts, os, a) ==
    [ instances |-> [insts EXCEPT ![a.name] = Len(os) + 1],
      objs |-> Append(os, [name |-> a.name,
                           b |-> NewBreaker(a.failure_threshold, a.recovery_timeout)]) ]

RegEvent(op, t, a) ==
    [ op |-> op, thread |-> t, args |-> a, instances |-> instances, objs |-> objs ]

\* get_circuit_breaker: enter the with block.
GetBegin(t, a) ==
    /\ rpc[t] = "idle"
    /\ gets < MaxGets
    /\ RegLockFree(rlock)
    /\ rlock' = t
    /\ rpc' = [rpc EXCEPT ![t] = "lookup"]
    /\ rargs' = [rargs EXCEPT ![t] = a]
    /\ gets' = gets + 1
    /\ rev' = RegEvent("begin", t, a)
    /\ UNCHANGED <<instances, objs, got>>
    /\ UNCHANGED <<brkvars, cntvars, srchvars, cachevars, metvars, lkvars>>

\* get_circuit_breaker: if name not in cls._instances
GetLookup(t) ==
    /\ rpc[t] = "lookup"
    /\ rpc' = [rpc EXCEPT ![t] = IF RegistryHas(instances, rargs[t].name)
                                 THEN "return" ELSE "create"]
    /\ rev' = RegEvent("lookup", t, rargs[t])
    /\ UNCHANGED <<instances, objs, rlock, rargs, got, gets>>
    /\ UNCHANGED <<brkvars, cntvars, srchvars, cachevars, metvars, lkvars>>

\* get_circuit_breaker: construct and register the breaker.
GetCreate(t) ==
    /\ rpc[t] = "create"
    /\ LET r == RegistryAdd(instances, objs, rargs[t]) IN
       /\ instances' = r.instances
       /\ objs' = r.objs
    /\ rpc' = [rpc EXCEPT ![t] = "return"]
    /\ rev' = RegEvent("create", t, rargs[t])
    /\ UNCHANGED <<rlock, rargs, got, gets>>
    /\ UNCHANGED <<brkvars, cntvars, srchvars, cachevars, metvars, lkvars>>

\* get_circuit_breaker: return cls._instances[name], leave the with block.
GetReturn(t) ==
    /\ rpc[t] = "return"
    /\ got' = [got EXCEPT ![t] =
                [site |-> rargs[t].site, name |-> rargs[t].name,
                 failure_threshold |-> rargs[t].failure_threshold,
                 recovery_timeout |-> rargs[t].recovery_timeout,
                 id |-> instances[rargs[t].name]]]
    /\ rlock' = NoThread
    /\ rpc' = [rpc EXCEPT ![t] = "idle"]
    /\ rev' = RegEvent("return", t, rargs[t])
    /\ UNCHANGED <<instances, objs, rargs, gets>>
    /\ UNCHANGED <<brkvars, cntvars, srchvars, cachevars, metvars, lkvars>>

\* total_calls summed over the instances os
RECURSIVE CallsMade(_)
CallsMade(os) ==
    IF os = <<>> THEN 0 ELSE Head(os).b.total_calls + CallsMade(Tail(os))

\* A whole call() on the registered instance i, whose function ends with o.
RegCall(i, o) ==
    /\ i \in 1..Len(objs)
    /\ CallsMade(objs) < MaxRegCalls
    /\ LET a == CallAdmission(objs[i].b, now) IN
       objs' = [objs EXCEPT ![i].b = IF a.admitted
                                     THEN CallOutcome(a.cb, o, now).cb
                                     ELSE a.cb]
    /\ rev' = RegEvent("call", NoThread, NoArgs)
    /\ UNCHANGED <<instances, rlock, rpc, rargs, got, gets>>
    /\ UNCHANGED <<brkvars, cntvars, srchvars, cachevars, metvars, lkvars>>

RegistryNext ==
    \/ \E t \in Threads, a \in CallSites : GetBegin(t, a)
    \/ \E t \in Threads : GetLookup(t)
    \/ \E t \in Threads : GetCreate(t)
    \/ \E t \in Threads : GetReturn(t)
    \/ \E i \in 1..MaxGets, o \in Outcomes : RegCall(i, o)

\* _instances: Dict[str, CircuitBreaker] = {}
InitRegistry ==
    /\ instances = [n \in Names |-> 0]
    /\ objs = <<>>
    /\ rlock = NoThread
    /\ rpc = [t \in Threads |-> "idle"]
    /\ rargs = [t \in Threads |-> NoArgs]
    /\ got = [t \in Threads |-> NoInstance]
    /\ gets = 0
    /\ rev = [op |-> "init", thread |-> NoThread, args |-> NoArgs,
              instances |-> [n \in Names |-> 0], objs |-> <<>>]

\* --------------------------------------------- call(), statement by statement
MaxStmtCalls == 3      \* call() is entered at most MaxStmtCalls times

\* with self._lock
CallLockFree_NoLock(l) == TRUE

CallLockFree(l) == l = NoThread

\* call(), line 82: enter the with block.
CallAcquire(t) ==
    /\ kpc[t] = "idle"
    /\ ktally.begun < MaxStmtCalls
    /\ CallLockFree(klock)
    /\ klock' = t
    /\ kpc' = [kpc EXCEPT ![t] = "read_total"]
    /\ ktally' = [ktally EXCEPT !.begun = @ + 1]
    /\ UNCHANGED <<kb, ktmp>>
    /\ UNCHANGED <<brkvars, regvars, srchvars, cachevars, metvars, lkvars>>

\* call(), line 83: read self.total_calls.
CallReadTotal(t) ==
    /\ kpc[t] = "read_total"
    /\ ktmp' = [ktmp EXCEPT ![t] = kb.total_calls]
    /\ kpc' = [kpc EXCEPT ![t] = "write_total"]
    /\ UNCHANGED <<kb, klock, ktally>>
    /\ UNCHANGED <<brkvars, regvars, srchvars, cachevars, metvars, lkvars>>

\* call(), lines 83-91: write self.total_calls, then the admission check; a
\* rejected call leaves the with block raising CircuitBreakerError.
CallWriteTotal(t) ==
    /\ kpc[t] = "write_total"
    /\ LET a == CallAdmission([kb EXCEPT !.total_calls = ktmp[t]], now) IN
       /\ kb' = a.cb
       /\ IF a.admitted
          THEN /\ kpc' = [kpc EXCEPT ![t] = "func"]
               /\ UNCHANGED <<klock, ktally>>
          ELSE /\ kpc' = [kpc EXCEPT ![t] = "idle"]
               /\ klock' = NoThread
               /\ ktally' = [ktally EXCEPT !.completed = @ + 1]
    /\ UNCHANGED ktmp
    /\ UNCHANGED <<brkvars, regvars, srchvars, cachevars, metvars, lkvars>>

\* call(), lines 93-104: func ends; an unexpected exception leaves the with
\* block at once, the other outcomes go on to _on_success / _on_failure.
CallFunc(t, o) ==
    /\ kpc[t] = "func"
    /\ IF o = "unexpected"
       THEN /\ kpc' = [kpc EXCEPT ![t] = "idle"]
            /\ klock' = NoThread
            /\ ktally' = [ktally EXCEPT !.completed = @ + 1]
       ELSE /\ kpc' = [kpc EXCEPT ![t] = IF o = "returns" THEN "read_success"
                                                          ELSE "read_failure"]
            /\ UNCHANGED <<klock, ktally>>
    /\ UNCHANGED <<kb, ktmp>>
    /\ UNCHANGED <<brkvars, regvars, srchvars, cachevars, metvars, lkvars>>

\* _on_success, line 116 / _on_failure, line 129: read the counter.
CallReadCount(t) ==
    /\ kpc[t] \in {"read_success", "read_failure"}
    /\ ktmp' = [ktmp EXCEPT ![t] = IF kpc[t] = "read_success"
                                   THEN kb.success_count ELSE kb.failure_count]
    /\ kpc' = [kpc EXCEPT ![t] = IF kpc[t] = "read_success"
                                 THEN "write_success" ELSE "write_failure"]
    /\ UNCHANGED <<kb, klock, ktally>>
    /\ UNCHANGED <<brkvars, regvars, srchvars, cachevars, metvars, lkvars>>

\* _on_success / _on_failure: write the counter and the rest of the method,
\* then leave the with block.
CallWriteCount(t) ==
    /\ kpc[t] \in {"write_success", "write_failure"}
    /\ kb' = IF kpc[t] = "write_success"
             THEN OnSuccess([kb EXCEPT !.success_count = ktmp[t]])
             ELSE OnFailure([kb EXCEPT !.failure_count = ktmp[t]], now)
    /\ kpc' = [kpc EXCEPT ![t] = "idle"]
    /\ klock' = NoThread
    /\ ktally' = [ktally EXCEPT !.completed = @ + 1,
                                !.returned = IF kpc[t] = "write_success"
                                             THEN @ + 1 ELSE @]
    /\ UNCHANGED ktmp
    /\ UNCHANGED <<brkvars, regvars, srchvars, cachevars, metvars, lkvars>>

StatementNext ==
    \/ \E t \in Threads : CallAcquire(t)
    \/ \E t \in Threads : CallReadTotal(t)
    \/ \E t \in Threads : CallWriteTotal(t)
    \/ \E t \in Threads, o \in Outcomes : CallFunc(t, o)
    \/ \E t \in Threads : CallReadCount(t)
    \/ \E t \in Threads : CallWriteCount(t)

InitStatements(threshold, timeout) ==
    /\ kb = NewBreaker(threshold, timeout)
    /\ klock = NoThread
    /\ kpc = [t \in Threads |-> "idle"]
    /\ ktmp = [t \in Threads |-> 0]
    /\ ktally = [begun |-> 0, completed |-> 0, returned |-> 0]

\* ------------------------------------------- search with database fallback
MaxSearchCalls == 6    \* the elasticsearch breaker is called at most this often

\* The attributes the class ApplicationMetrics defines (all static methods).
ApplicationMetricsAttrs ==
    { "record_api_request", "record_database_query", "record_cache_operation",
      "record_search_operation", "record_import_operation",
      "set_active_connections", "set_memory_usage" }

\* ApplicationMetrics.increment_counter(...) evaluates the attribute first; a
\* missing attribute raises AttributeError.
MetricsCallRaises(attr) == attr \notin ApplicationMetricsAttrs

ResourceTypes == {"Museum", "Hotel"}
Cities == {"Paris", "Lyon"}
Queries == {"", "tour"}
Radii == {1, 5}
Pages == {0, 1, 2}
PageSizes == {2}

\* The rows a table can hold.  words: the terms the full-text vector of name
\* and description matches; distance: km from the search point; created: rank
\* of created_at; rank: SearchRank against the query; city "" is a row without
\* a city.
Resources == {"r1", "r2", "r3"}

Row ==
    [ r \in Resources |->
        CASE r = "r1" -> [resource_types |-> {"Museum"}, city |-> "Paris",
                          words |-> {"tour"}, distance |-> 1, created |-> 1,
                          rank |-> 2]
          [] r = "r2" -> [resource_types |-> {"Hotel"}, city |-> "Lyon",
                          words |-> {}, distance |-> 3, created |-> 2,
                          rank |-> 0]
          [] r = "r3" -> [resource_types |-> {"Museum", "Hotel"}, city |-> "",
                          words |-> {"tour"}, distance |-> 4, created |-> 3,
                          rank |-> 1] ]

\* filters: the keys resource_types and cities; an empty list filters nothing.
FilterSets ==
    { [resource_types |-> {}, cities |-> {}],
      [resource_types |-> {"Museum"}, cities |-> {}],
      [resource_types |-> {}, cities |-> {"Paris"}] }

\* TouristicResource.objects.filter(is_active=True)
ActiveRows(db) == {r \in Resources : db[r] = "active"}

\* .filter(search=search_query) when a query is given
TextMatch(rs, query) ==
    IF query = "" THEN rs ELSE {r \in rs : query \in Row[r].words}

\* location__distance_lte=(search_point, Distance(km=radius_km))
GeoMatch(rs, radius) == {r \in rs : Row[r].distance <= radius}

\* _apply_filters
ApplyFilters(rs, filters) ==
    LET byType == IF filters.resource_types # {}
                  THEN {r \in rs : Row[r].resource_types \cap filters.resource_types # {}}
                  ELSE rs
    IN IF filters.cities # {}
       THEN {r \in byType : Row[r].city \in filters.cities}
       ELSE byType

\* order_by: the rows of rs in ascending order of key.
RECURSIVE OrderBy(_, _)
OrderBy(rs, key) ==
    IF rs = {} THEN <<>>
    ELSE LET first == CHOOSE r \in rs : \A q \in rs : key[r] <= key[q]
         IN <<first>> \o OrderBy(rs \ {first}, key)

\* queryset[start:end] with start = (page - 1) * page_size
PageOf(rows, page, page_size) ==
    LET start == (page - 1) * page_size
        end == IF start + page_size < Len(rows) THEN start + page_size ELSE Len(rows)
    IN SubSeq(rows, start + 1, end)

\* _calculate_aggregations; a value that is not listed has count 0.
CalculateAggregations(rs) ==
    [ types |-> [t \in ResourceTypes |->
                    Cardinality({r \in rs : t \in Row[r].resource_types})],
      cities |-> [c \in Cities |-> Cardinality({r \in rs : Row[r].city = c})] ]

NoAggregations ==
    [types |-> [t \in ResourceTypes |-> 0], cities |-> [c \in Cities |-> 0]]

\* What a caller gets: a result dictionary (exc = "") or an exception.
Raised(exc) ==
    [exc |-> exc, source |-> "none", fallback |-> FALSE, error |-> FALSE,
     total |-> 0, hits |-> <<>>, aggregations |-> NoAggregations]

ResultDict(source, fallback, error, total, hits, aggregations) ==
    [exc |-> "", source |-> source, fallback |-> fallback, error |-> error,
     total |-> total, hits |-> hits, aggregations |-> aggregations]

\* queryset[start:end] raises on a negative start (page < 1).
SliceRaises(page, page_size) == (page - 1) * page_size < 0

\* The except branch of the fallback methods.
FallbackHandler(errors_metric) ==
    IF MetricsCallRaises(errors_metric)
    THEN Raised("AttributeError")
    ELSE ResultDict("database", TRUE, TRUE, 0, <<>>, NoAggregations)

\* DatabaseSearchFallback.text_search
FallbackText(db, query, filters, page, page_size) ==
    IF MetricsCallRaises("increment_counter") \/ SliceRaises(page, page_size)
    THEN FallbackHandler("increment_counter")
    ELSE LET queryset == ApplyFilters(TextMatch(ActiveRows(db), query), filters)
             key == IF query # "" THEN [r \in Resources |-> 0 - Row[r].rank]
                                  ELSE [r \in Resources |-> 0 - Row[r].created]
         IN ResultDict("database", TRUE, FALSE, Cardinality(queryset),
                       PageOf(OrderBy(queryset, key), page, page_size),
                       CalculateAggregations(ActiveRows(db)))

\* DatabaseSearchFallback.geo_search
FallbackGeo(db, radius, filters, page, page_size) ==
    IF MetricsCallRaises("increment_counter") \/ SliceRaises(page, page_size)
    THEN FallbackHandler("increment_counter")
    ELSE LET queryset == ApplyFilters(GeoMatch(ActiveRows(db), radius), filters)
             key == [r \in Resources |-> Row[r].distance]
         IN ResultDict("database", TRUE, FALSE, Cardinality(queryset),
                       PageOf(OrderBy(queryset, key), page, page_size),
                       CalculateAggregations(queryset))

\* What Elasticsearch does when it is asked: it answers, fails to connect or
\* times out, or rejects the query as malformed (RequestError).
EngineOutcomes == {"returns", "connection", "malformed"}

\* How call() of the elasticsearch breaker sees the wrapped function's end:
\* expected_exception is Exception, which every engine error is an instance of.
BreakerOutcome(engine) == IF engine = "returns" THEN "returns" ELSE "expected"

\* The try block of SearchService.text_search / geo_search up to and including
\* circuit_breaker.call(_elasticsearch_search).  The wrapped function itself
\* records its success through ApplicationMetrics before it returns.
PrimaryAttempt(b, engine, t) ==
    IF MetricsCallRaises("increment_counter")
    THEN [cb |-> b, invoked |-> FALSE, raised |-> "AttributeError"]
    ELSE LET a == CallAdmission(b, t)
             outcome == IF MetricsCallRaises("increment_counter")
                        THEN "expected" ELSE BreakerOutcome(engine)
         IN IF ~a.admitted
            THEN [cb |-> a.cb, invoked |-> FALSE, raised |-> "CircuitBreakerError"]
            ELSE [cb |-> CallOutcome(a.cb, outcome, t).cb, invoked |-> TRUE,
                  raised |-> IF outcome = "returns" THEN "" ELSE "Exception"]

\* The except (CircuitBreakerError, Exception) branch of SearchService.
ServiceHandler(fallback_result) ==
    IF MetricsCallRaises("increment_counter")
    THEN Raised("AttributeError")
    ELSE fallback_result

\* SearchService.text_search / geo_search: the primary attempt, then the
\* handler with the fallback's result.
ServiceSearch(b, engine, t, fallback_result) ==
    LET p == PrimaryAttempt(b, engine, t) IN
    [ cb |-> p.cb, invoked |-> p.invoked, primary_raised |-> p.raised,
      engine |-> engine,
      result |-> IF p.raised = ""
                 THEN ResultDict("elasticsearch", FALSE, FALSE, 0, <<>>, NoAggregations)
                 ELSE ServiceHandler(fallback_result) ]

NoSearch ==
    [op |-> "none", query |-> "", radius |-> 0, filters |-> [resource_types |-> {}, cities |-> {}],
     page |-> 0, page_size |-> 0, pre |-> NewBreaker(1, 1), invoked |-> FALSE,
     engine |-> "none", primary_raised |-> "", result |-> Raised("none")]

SearchRecord(op, query, radius, filters, page, page_size, pre, s) ==
    [op |-> op, query |-> query, radius |-> radius, filters |-> filters,
     page |-> page, page_size |-> page_size, pre |-> pre, invoked |-> s.invoked,
     engine |-> s.engine, primary_raised |-> s.primary_raised, result |-> s.result]

\* SearchService.text_search(query, filters=..., page=..., page_size=...)
ServiceTextSearch(query, filters, page, page_size, engine) ==
    /\ esb.total_calls < MaxSearchCalls
    /\ LET s == ServiceSearch(esb, engine, now,
                              FallbackText(sdb, query, filters, page, page_size))
       IN /\ esb' = s.cb
          /\ slast' = SearchRecord("SearchService.text_search", query, 0, filters,
                                   page, page_size, esb, s)
    /\ UNCHANGED sdb
    /\ UNCHANGED <<brkvars, regvars, cntvars, cachevars, metvars, lkvars>>

\* SearchService.geo_search(lat, lng, radius_km, filters=..., page=..., page_size=...)
ServiceGeoSearch(radius, filters, page, page_size, engine) ==
    /\ esb.total_calls < MaxSearchCalls
    /\ LET s == ServiceSearch(esb, engine, now,
                              FallbackGeo(sdb, radius, filters, page, page_size))
       IN /\ esb' = s.cb
          /\ slast' = SearchRecord("SearchService.geo_search", "", radius, filters,
                                   page, page_size, esb, s)
    /\ UNCHANGED sdb
    /\ UNCHANGED <<brkvars, regvars, cntvars, cachevars, metvars, lkvars>>

\* DatabaseSearchFallback.text_search called on its own.
FallbackTextSearch(query, filters, page, page_size) ==
    /\ slast' = SearchRecord("DatabaseSearchFallback.text_search", query, 0, filters,
                             page, page_size, esb,
                             [invoked |-> FALSE, engine |-> "none", primary_raised |-> "",
                              result |-> FallbackText(sdb, query, filters, page, page_size)])
    /\ UNCHANGED <<sdb, esb>>
    /\ UNCHANGED <<brkvars, regvars, cntvars, cachevars, metvars, lkvars>>

\* DatabaseSearchFallback.geo_search called on its own.
FallbackGeoSearch(radius, filters, page, page_size) ==
    /\ slast' = SearchRecord("DatabaseSearchFallback.geo_search", "", radius, filters,
                             page, page_size, esb,
                             [invoked |-> FALSE, engine |-> "none", primary_raised |-> "",
                              result |-> FallbackGeo(sdb, radius, filters, page, page_size)])
    /\ UNCHANGED <<sdb, esb>>
    /\ UNCHANGED <<brkvars, regvars, cntvars, cachevars, metvars, lkvars>>

\* What a method that asks Elasticsearch directly records.
DirectCall(engine, answer) ==
    [invoked |-> TRUE, engine |-> engine,
     primary_raised |-> IF engine = "returns" THEN "" ELSE "Exception",
     result |-> answer]

\* SearchService.autocomplete: search.execute() in a try block; [] on any
\* exception.
Autocomplete(engine) ==
    /\ slast' = SearchRecord("SearchService.autocomplete", "tour", 0,
                             [resource_types |-> {}, cities |-> {}], 1, 1, esb,
                             DirectCall(engine,
                                 ResultDict(IF engine = "returns" THEN "elasticsearch" ELSE "none",
                                            FALSE, FALSE, 0, <<>>, NoAggregations)))
    /\ UNCHANGED <<sdb, esb>>
    /\ UNCHANGED <<brkvars, regvars, cntvars, cachevars, metvars, lkvars>>

\* SearchService.filter_by_type: search.execute() in a try block; an error
\* dictionary on any exception.
FilterByType(types, engine) ==
    /\ slast' = SearchRecord("SearchService.filter_by_type", "", 0,
                             [resource_types |-> types, cities |-> {}], 1, 1, esb,
                             DirectCall(engine,
                                 ResultDict(IF engine = "returns" THEN "elasticsearch" ELSE "none",
                                            FALSE, engine # "returns", 0, <<>>, NoAggregations)))
    /\ UNCHANGED <<sdb, esb>>
    /\ UNCHANGED <<brkvars, regvars, cntvars, cachevars, metvars, lkvars>>

\* ConnectionManager.get_elasticsearch_client, one attempt: the client is
\* created and pinged inside call() of the same 'elasticsearch' breaker.
GetElasticsearchClient(engine) ==
    /\ esb.total_calls < MaxSearchCalls
    /\ LET a == CallAdmission(esb, now)
           after == IF a.admitted THEN CallOutcome(a.cb, BreakerOutcome(engine), now).cb
                    ELSE a.cb
       IN /\ esb' = after
          /\ slast' = SearchRecord("ConnectionManager.get_elasticsearch_client", "", 0,
                                   [resource_types |-> {}, cities |-> {}], 1, 1, esb,
                                   [invoked |-> a.admitted, engine |-> engine,
                                    primary_raised |-> IF ~a.admitted THEN "CircuitBreakerError"
                                                       ELSE IF engine = "returns" THEN ""
                                                       ELSE "Exception",
                                    result |-> IF a.admitted /\ engine = "returns"
                                               THEN ResultDict("elasticsearch", FALSE, FALSE, 0,
                                                               <<>>, NoAggregations)
                                               ELSE Raised(IF a.admitted THEN "Exception"
                                                           ELSE "CircuitBreakerError")])
    /\ UNCHANGED sdb
    /\ UNCHANGED <<brkvars, regvars, cntvars, cachevars, metvars, lkvars>>

\* A row is activated or deactivated.
SaveRow(r, status) ==
    /\ sdb[r] # status
    /\ sdb' = [sdb EXCEPT ![r] = status]
    /\ UNCHANGED <<esb, slast>>
    /\ UNCHANGED <<brkvars, regvars, cntvars, cachevars, metvars, lkvars>>

SearchNext ==
    \/ \E q \in Queries, f \in FilterSets, p \in Pages, ps \in PageSizes,
          e \in EngineOutcomes : ServiceTextSearch(q, f, p, ps, e)
    \/ \E rad \in Radii, f \in FilterSets, p \in Pages, ps \in PageSizes,
          e \in EngineOutcomes : ServiceGeoSearch(rad, f, p, ps, e)
    \/ \E q \in Queries, f \in FilterSets, p \in Pages, ps \in PageSizes :
          FallbackTextSearch(q, f, p, ps)
    \/ \E rad \in Radii, f \in FilterSets, p \in Pages, ps \in PageSizes :
          FallbackGeoSearch(rad, f, p, ps)
    \/ \E r \in Resources, st \in {"inactive", "active"} : SaveRow(r, st)
    \/ \E e \in EngineOutcomes : Autocomplete(e)
    \/ \E ts \in (SUBSET ResourceTypes) \ {{}}, e \in EngineOutcomes :
          FilterByType(ts, e)
    \/ \E e \in {"returns", "connection"} : GetElasticsearchClient(e)

ElasticsearchSite == CHOOSE c \in CallSites : c.site = "elasticsearch_circuit_breaker"

InitSearch(db) ==
    /\ sdb = db
    /\ esb = NewBreaker(ElasticsearchSite.failure_threshold,
                        ElasticsearchSite.recovery_timeout)
    /\ slast = NoSearch

\* ------------------------------------------------------------ CacheService
\* CacheService.PREFIXES
PREFIXES ==
    [resource |-> "res", list |-> "list", search |-> "search", nearby |-> "nearby",
     analytics |-> "analytics", api |-> "api"]

\* cls.PREFIXES.get(prefix, prefix)
PrefixOf(category) ==
    IF category \in DOMAIN PREFIXES THEN PREFIXES[category] ELSE category

\* The categories and argument values the calls are made with.  A value has a
\* Python type and a text; "object" is a type json cannot encode (a UUID, a
\* Decimal), which json.dumps hands to default=str.
Categories == {"resource", "res", "search"}
ArgValues ==
    { [type |-> "int", text |-> "42"], [type |-> "str", text |-> "42"],
      [type |-> "str", text |-> "fr"], [type |-> "object", text |-> "42"] }
KwValues == { [type |-> "str", text |-> "fr"], [type |-> "int", text |-> "42"] }
KwNames == {"lang", "page"}

\* Python's order on the keyword names.
NameRank == [lang |-> 1, page |-> 2]

ArgLists == {<<>>} \cup {<<v>> : v \in ArgValues}

\* kwargs in insertion order: a list of (name, value) with distinct names.
KwargLists ==
    {<<>>} \cup {<< <<n, v>> >> : n \in KwNames, v \in KwValues}
           \cup {<< <<nm[1], v>>, <<nm[2], w>> >> :
                      nm \in {p \in KwNames \X KwNames : p[1] # p[2]},
                      v \in KwValues, w \in KwValues}

KeyCalls == [category : Categories, args : ArgLists, kwargs : KwargLists]

\* json.dumps of one value: a number for an int, a string for a str and,
\* through default=str, for any other object.
JsonValue(v) ==
    IF v.type = "int" THEN <<"number", v.text>> ELSE <<"string", v.text>>

\* sorted(kwargs.items())
SortedItems_Unsorted(items) == items

RECURSIVE SortedItems(_)
SortedItems(items) ==
    IF items = <<>> THEN <<>>
    ELSE LET i == CHOOSE i \in 1..Len(items) :
                    \A j \in 1..Len(items) : NameRank[items[i][1]] <= NameRank[items[j][1]]
         IN <<items[i]>> \o
            SortedItems(SubSeq(items, 1, i - 1) \o SubSeq(items, i + 1, Len(items)))

\* json.dumps(key_data, sort_keys=True, default=str)
KeyString(args, kwargs) ==
    [ args |-> [i \in 1..Len(args) |-> JsonValue(args[i])],
      kwargs |-> LET items == SortedItems(kwargs)
                 IN [i \in 1..Len(items) |-> <<items[i][1], JsonValue(items[i][2])>>] ]

\* hashlib.md5(...).hexdigest()[:16], taken as collision-free.
KeyHash(key_string) == <<"md5", key_string>>

\* CacheService.generate_key
GenerateKey(category, args, kwargs) ==
    [prefix |-> PrefixOf(category), hash |-> KeyHash(KeyString(args, kwargs))]

NoKeys == <<>>

\* ---- the cache backend and the operations on it
Missing == "None"
CacheValues == {"v1", "v2"}
Languages == {"fr", "en"}

IntValue(text) == [type |-> "int", text |-> text]
StrValue(text) == [type |-> "str", text |-> text]

\* The key arguments (resource id, language) the operations are called with:
\* resource 1 in both languages, resource 42 in French, and the id 42 given
\* as a str and as an object whose str() is "42".
CacheCalls ==
    {<<IntValue("1"), StrValue(l)>> : l \in Languages}
        \cup {<<IntValue("42"), StrValue("fr")>>,
              <<StrValue("42"), StrValue("fr")>>,
              <<[type |-> "object", text |-> "42"], StrValue("fr")>>}

\* The call a cache_result wrapper of get_detail(42) builds its key from.
WrappedCall == <<StrValue("get_detail"), IntValue("42")>>

KeyOf(call) == GenerateKey("resource", call, <<>>)

CacheKeys == {KeyOf(c) : c \in CacheCalls \cup {WrappedCall}}

\* The 16 hex digits of the md5 of the key string of the calls above.
HexDigits(key_string) ==
    LET a == key_string.args IN
    CASE a = <<JsonValue(IntValue("1")), JsonValue(StrValue("fr"))>> ->
            <<"5","2","5","0","5","2","9","3","e","3","2","d","c","3","f","6">>
      [] a = <<JsonValue(IntValue("1")), JsonValue(StrValue("en"))>> ->
            <<"c","7","8","f","1","7","5","2","8","8","9","1","1","c","a","a">>
      [] a = <<JsonValue(IntValue("42")), JsonValue(StrValue("fr"))>> ->
            <<"d","0","6","a","2","1","d","b","d","2","1","3","5","4","8","b">>
      [] a = <<JsonValue(StrValue("42")), JsonValue(StrValue("fr"))>> ->
            <<"3","a","9","d","9","f","3","c","5","c","d","d","e","2","8","9">>
      [] a = <<JsonValue(StrValue("get_detail")), JsonValue(IntValue("42"))>> ->
            <<"f","e","e","a","3","6","5","9","c","9","1","4","b","0","8","0">>

\* str(resource_id) as characters.
IdDigits(id) == IF id = "42" THEN <<"4", "2">> ELSE <<id>>

\* sub occurs in text.
Contains(text, sub) ==
    \E i \in 1..(Len(text) - Len(sub) + 1) : SubSeq(text, i, i + Len(sub) - 1) = sub

\* The backend's glob match of "<prefix>:*<infix>*" on the key "<prefix>:<hash>".
MatchesPattern(key, prefix, infix) ==
    key.prefix = prefix /\ Contains(HexDigits(key.hash[2]), infix)

\* What a caller gets from a cache operation.
CacheResult(exc, value, ok, count) ==
    [exc |-> exc, value |-> value, ok |-> ok, count |-> count]

\* CacheService.get: cache.get(key) in a try block.
CacheGet_Unguarded(st, key, fails) ==
    IF fails THEN CacheResult("ConnectionError", Missing, FALSE, 0)
    ELSE CacheResult("", st[key], FALSE, 0)

CacheGet(st, key, fails) ==
    IF fails THEN CacheResult("", Missing, FALSE, 0)
    ELSE CacheResult("", st[key], FALSE, 0)

\* CacheService.set: cache.set(key, value, timeout) in a try block.
CacheSet(st, key, value, fails) ==
    IF fails THEN [store |-> st, result |-> CacheResult("", Missing, FALSE, 0)]
    ELSE [store |-> [st EXCEPT ![key] = value],
          result |-> CacheResult("", Missing, TRUE, 0)]

\* CacheService.delete: cache.delete(key) in a try block.
CacheDelete_Keep(st, key, fails) ==
    [store |-> st, result |-> CacheResult("", Missing, ~fails /\ st[key] # Missing, 0)]

CacheDelete(st, key, fails) ==
    IF fails THEN [store |-> st, result |-> CacheResult("", Missing, FALSE, 0)]
    ELSE [store |-> [st EXCEPT ![key] = Missing],
          result |-> CacheResult("", Missing, st[key] # Missing, 0)]

\* CacheService.delete_pattern: cache.delete_pattern(...) in a try block.
CacheDeletePattern(st, prefix, infix, fails) ==
    IF fails THEN [store |-> st, result |-> CacheResult("", Missing, FALSE, 0)]
    ELSE LET hit == {k \in CacheKeys : st[k] # Missing /\ MatchesPattern(k, prefix, infix)}
         IN [store |-> [k \in CacheKeys |-> IF k \in hit THEN Missing ELSE st[k]],
             result |-> CacheResult("", Missing, FALSE, Cardinality(hit))]

\* CacheService.clear_all: cache.clear() in a try block.
CacheClearAll(st, fails) ==
    IF fails THEN [store |-> st, result |-> CacheResult("", Missing, FALSE, 0)]
    ELSE [store |-> [k \in CacheKeys |-> Missing],
          result |-> CacheResult("", Missing, TRUE, 0)]

NoCall == <<>>

\* removed: the keys the operation took out of the store.
CacheEvent(op, call, value, fails, invoked, res, after) ==
    [op |-> op, call |-> call, value |-> value, failed |-> fails,
     removed |-> {k \in CacheKeys : cstore[k] # Missing /\ after[k] = Missing},
     invoked |-> invoked, result |-> res]

IsNative(call) == \A i \in 1..Len(call) : call[i].type \in {"int", "str"}

\* The key arguments whose entry is no longer in the store st.
Forget(shadow, st) ==
    [c \in CacheCalls |-> IF st[KeyOf(c)] = Missing THEN Missing ELSE shadow[c]]

\* CacheService.get(category, *call); ResourceCacheService.get_resource.
CacheServiceGet(call, fails) ==
    /\ clast' = CacheEvent("get", call, Missing, fails, FALSE,
                           CacheGet(cstore, KeyOf(call), fails), cstore)
    /\ cnative' = (cnative /\ IsNative(call))
    /\ UNCHANGED <<cstore, cshadow, keyin, keyout>>
    /\ UNCHANGED <<brkvars, regvars, cntvars, srchvars, metvars, lkvars>>

\* CacheService.set(category, value, None, *call); ResourceCacheService.set_resource.
CacheServiceSet(call, value, fails) ==
    /\ LET r == CacheSet(cstore, KeyOf(call), value, fails) IN
       /\ cstore' = r.store
       /\ clast' = CacheEvent("set", call, value, fails, FALSE, r.result, r.store)
       /\ cshadow' = IF fails THEN cshadow ELSE [cshadow EXCEPT ![call] = value]
    /\ cnative' = (cnative /\ IsNative(call))
    /\ UNCHANGED <<keyin, keyout>>
    /\ UNCHANGED <<brkvars, regvars, cntvars, srchvars, metvars, lkvars>>

\* CacheService.delete(category, *call)
CacheServiceDelete(call, fails) ==
    /\ LET r == CacheDelete(cstore, KeyOf(call), fails) IN
       /\ cstore' = r.store
       /\ clast' = CacheEvent("delete", call, Missing, fails, FALSE, r.result, r.store)
       /\ cshadow' = IF fails THEN cshadow ELSE [cshadow EXCEPT ![call] = Missing]
    /\ cnative' = (cnative /\ IsNative(call))
    /\ UNCHANGED <<keyin, keyout>>
    /\ UNCHANGED <<brkvars, regvars, cntvars, srchvars, metvars, lkvars>>

\* ResourceCacheService.invalidate_resource(id):
\* CacheService.delete_pattern("res:*<id>*")
InvalidateResource(id, fails) ==
    /\ LET r == CacheDeletePattern(cstore, "res", IdDigits(id), fails) IN
       /\ cstore' = r.store
       /\ clast' = CacheEvent("invalidate_resource", <<IntValue(id)>>, Missing, fails,
                              FALSE, r.result, r.store)
       /\ cshadow' = Forget(cshadow, r.store)
    /\ UNCHANGED <<cnative, keyin, keyout>>
    /\ UNCHANGED <<brkvars, regvars, cntvars, srchvars, metvars, lkvars>>

\* CacheService.clear_all()
CacheServiceClearAll(fails) ==
    /\ LET r == CacheClearAll(cstore, fails) IN
       /\ cstore' = r.store
       /\ clast' = CacheEvent("clear_all", NoCall, Missing, fails, FALSE, r.result, r.store)
       /\ cshadow' = Forget(cshadow, r.store)
    /\ UNCHANGED <<cnative, keyin, keyout>>
    /\ UNCHANGED <<brkvars, regvars, cntvars, srchvars, metvars, lkvars>>

\* The backend drops an entry whose timeout has passed.
Expire(key) ==
    /\ cstore[key] # Missing
    /\ cstore' = [cstore EXCEPT ![key] = Missing]
    /\ cshadow' = Forget(cshadow, cstore')
    /\ clast' = CacheEvent("expire", NoCall, Missing, FALSE, FALSE,
                           CacheResult("", Missing, FALSE, 0), cstore')
    /\ UNCHANGED <<cnative, keyin, keyout>>
    /\ UNCHANGED <<brkvars, regvars, cntvars, srchvars, metvars, lkvars>>

\* The wrapper of cache_result around a function returning value: cache.get,
\* then on a miss func and cache.set, none of them in a try block.
CachedCall(value, lookup_fails, store_fails) ==
    /\ LET key == KeyOf(WrappedCall)
           hit == ~lookup_fails /\ cstore[key] # Missing
           res == IF lookup_fails THEN CacheResult("ConnectionError", Missing, FALSE, 0)
                  ELSE IF hit THEN CacheResult("", cstore[key], FALSE, 0)
                  ELSE IF store_fails THEN CacheResult("ConnectionError", Missing, FALSE, 0)
                  ELSE CacheResult("", value, FALSE, 0)
       IN /\ cstore' = IF ~lookup_fails /\ ~hit /\ ~store_fails
                       THEN [cstore EXCEPT ![key] = value] ELSE cstore
          /\ clast' = CacheEvent("cache_result", WrappedCall, value,
                                 lookup_fails \/ (~hit /\ store_fails),
                                 ~lookup_fails /\ ~hit, res, cstore)
    /\ UNCHANGED <<cshadow, cnative, keyin, keyout>>
    /\ UNCHANGED <<brkvars, regvars, cntvars, srchvars, metvars, lkvars>>

CacheNext ==
    \/ \E c \in CacheCalls, f \in BOOLEAN : CacheServiceGet(c, f)
    \/ \E c \in CacheCalls, v \in CacheValues, f \in BOOLEAN : CacheServiceSet(c, v, f)
    \/ \E c \in CacheCalls, f \in BOOLEAN : CacheServiceDelete(c, f)
    \/ \E id \in {"1", "42"}, f \in BOOLEAN : InvalidateResource(id, f)
    \/ \E f \in BOOLEAN : CacheServiceClearAll(f)
    \/ \E k \in CacheKeys : Expire(k)
    \/ \E v \in CacheValues, lf \in BOOLEAN, sf \in BOOLEAN : CachedCall(v, lf, sf)

\* Two calls of generate_key.
GenerateKeys ==
    /\ keyout = NoKeys
    /\ keyout' = <<GenerateKey(keyin[1].category, keyin[1].args, keyin[1].kwargs),
                   GenerateKey(keyin[2].category, keyin[2].args, keyin[2].kwargs)>>
    /\ UNCHANGED <<keyin, cstore, cshadow, cnative, clast>>
    /\ UNCHANGED <<brkvars, regvars, cntvars, srchvars, metvars, lkvars>>

CacheKeyNext == GenerateKeys

InitStore ==
    /\ cstore = [k \in CacheKeys |-> Missing]
    /\ cshadow = [c \in CacheCalls |-> Missing]
    /\ cnative = TRUE
    /\ clast = [op |-> "none", call |-> NoCall, value |-> Missing, failed |-> FALSE,
                removed |-> {}, invoked |-> FALSE,
                result |-> CacheResult("", Missing, FALSE, 0)]

InitCache ==
    /\ keyin = <<[category |-> "resource", args |-> <<>>, kwargs |-> <<>>],
                 [category |-> "resource", args |-> <<>>, kwargs |-> <<>>]>>
    /\ keyout = NoKeys
    /\ InitStore

\* ------------------------------------------- locks of registry and breakers
MaxLockOps == 4  \* at most this many operations are started

LockNames == {"redis", "elasticsearch"}

BreakerOps == {"call", "get_stats", "reset", "force_open"}
RegistryOps == {"get_circuit_breaker", "get_all_stats", "reset_all"}

IdleOp == [op |-> "idle", name |-> "none", pc |-> "idle", todo |-> {}]

OthersUnchanged ==
    UNCHANGED <<brkvars, regvars, cntvars, srchvars, cachevars, metvars>>

\* A thread enters one of the operations; a breaker operation needs a
\* breaker the registry has handed out.
StartOp(t, op, name) ==
    /\ lop[t].op = "idle"
    /\ lstarted < MaxLockOps
    /\ op \in BreakerOps => name \in linst
    /\ lop' = [lop EXCEPT ![t] =
                  [op |-> op,
                   name |-> IF op \in {"get_all_stats", "reset_all"}
                            THEN "none" ELSE name,
                   pc |-> "enter", todo |-> {}]]
    /\ lstarted' = lstarted + 1
    /\ UNCHANGED <<mgrlock, cblock, linst, lopen>>
    /\ OthersUnchanged

\* call: with self._lock, then the admission check: an OPEN breaker either
\* moves to HALF_OPEN (the timeout has passed) or raises CircuitBreakerError,
\* which leaves the with cblock.
CallEnter(t, reset_due) ==
    /\ lop[t].op = "call" /\ lop[t].pc = "enter"
    /\ cblock[lop[t].name] = NoThread
    /\ IF lopen[lop[t].name] /\ ~reset_due
       THEN /\ lop' = [lop EXCEPT ![t] = IdleOp]
            /\ UNCHANGED <<cblock, lopen>>
       ELSE /\ cblock' = [cblock EXCEPT ![lop[t].name] = t]
            /\ lopen' = [lopen EXCEPT ![lop[t].name] = FALSE]
            /\ lop' = [lop EXCEPT ![t].pc = "func"]
    /\ UNCHANGED <<mgrlock, linst, lstarted>>
    /\ OthersUnchanged

\* call: the wrapped function returns or raises, the bookkeeping runs and
\* the with cblock ends.
CallReturn_KeepLock(t, opens) ==
    /\ lop[t].op = "call" /\ lop[t].pc = "func"
    /\ lopen' = [lopen EXCEPT ![lop[t].name] = opens]
    /\ lop' = [lop EXCEPT ![t] = IdleOp]
    /\ UNCHANGED <<cblock, mgrlock, linst, lstarted>>
    /\ OthersUnchanged

CallReturn(t, opens) ==
    /\ lop[t].op = "call" /\ lop[t].pc = "func"
    /\ cblock' = [cblock EXCEPT ![lop[t].name] = NoThread]
    /\ lopen' = [lopen EXCEPT ![lop[t].name] = opens]
    /\ lop' = [lop EXCEPT ![t] = IdleOp]
    /\ UNCHANGED <<mgrlock, linst, lstarted>>
    /\ OthersUnchanged

\* get_stats, reset, force_open called on a breaker: the whole with cblock.
BreakerOp(t) ==
    /\ lop[t].op \in {"get_stats", "reset", "force_open"}
    /\ cblock[lop[t].name] = NoThread
    /\ lopen' = [lopen EXCEPT ![lop[t].name] =
                    CASE lop[t].op = "reset" -> FALSE
                      [] lop[t].op = "force_open" -> TRUE
                      [] OTHER -> @]
    /\ lop' = [lop EXCEPT ![t] = IdleOp]
    /\ UNCHANGED <<mgrlock, cblock, linst, lstarted>>
    /\ OthersUnchanged

\* get_circuit_breaker: the whole with cls._lock cblock.
LockedGetCircuitBreaker(t) ==
    /\ lop[t].op = "get_circuit_breaker"
    /\ mgrlock = NoThread
    /\ linst' = linst \cup {lop[t].name}
    /\ lop' = [lop EXCEPT ![t] = IdleOp]
    /\ UNCHANGED <<mgrlock, cblock, lopen, lstarted>>
    /\ OthersUnchanged

\* get_all_stats, reset_all: with cls._lock.
RegistryEnter(t) ==
    /\ lop[t].op \in {"get_all_stats", "reset_all"} /\ lop[t].pc = "enter"
    /\ mgrlock = NoThread
    /\ mgrlock' = t
    /\ lop' = [lop EXCEPT ![t].pc = "each", ![t].todo = linst]
    /\ UNCHANGED <<cblock, linst, lopen, lstarted>>
    /\ OthersUnchanged

\* get_all_stats, reset_all: cb.get_stats() or cb.reset() of the next
\* breaker of _instances, under the registry lock.
RegistryVisit(t, n) ==
    /\ lop[t].op \in {"get_all_stats", "reset_all"} /\ lop[t].pc = "each"
    /\ n \in lop[t].todo
    /\ cblock[n] = NoThread
    /\ lopen' = [lopen EXCEPT ![n] = IF lop[t].op = "reset_all" THEN FALSE ELSE @]
    /\ lop' = [lop EXCEPT ![t].todo = @ \ {n}]
    /\ UNCHANGED <<mgrlock, cblock, linst, lstarted>>
    /\ OthersUnchanged

\* get_all_stats, reset_all: the with cblock ends.
RegistryLeave(t) ==
    /\ lop[t].op \in {"get_all_stats", "reset_all"} /\ lop[t].pc = "each"
    /\ lop[t].todo = {}
    /\ mgrlock' = NoThread
    /\ lop' = [lop EXCEPT ![t] = IdleOp]
    /\ UNCHANGED <<cblock, linst, lopen, lstarted>>
    /\ OthersUnchanged

\* The steps of thread t inside an operation.
LockStep(t) ==
    \/ \E reset_due \in BOOLEAN : CallEnter(t, reset_due)
    \/ \E opens \in BOOLEAN : CallReturn(t, opens)
    \/ BreakerOp(t)
    \/ LockedGetCircuitBreaker(t)
    \/ RegistryEnter(t)
    \/ \E n \in LockNames : RegistryVisit(t, n)
    \/ RegistryLeave(t)

LockNext ==
    \/ \E t \in Threads, op \in BreakerOps \cup RegistryOps, n \in LockNames :
          StartOp(t, op, n)
    \/ \E t \in Threads, reset_due \in BOOLEAN : CallEnter(t, reset_due)
    \/ \E t \in Threads, opens \in BOOLEAN : CallReturn(t, opens)
    \/ \E t \in Threads : BreakerOp(t)
    \/ \E t \in Threads : LockedGetCircuitBreaker(t)
    \/ \E t \in Threads : RegistryEnter(t)
    \/ \E t \in Threads, n \in LockNames : RegistryVisit(t, n)
    \/ \E t \in Threads : RegistryLeave(t)

InitLocks ==
    /\ mgrlock = NoThread
    /\ cblock = [n \in LockNames |-> NoThread]
    /\ linst = {}
    /\ lopen = [n \in LockNames |-> FALSE]
    /\ lop = [t \in Threads |-> IdleOp]
    /\ lstarted = 0

\* -------------------------------------------------------- MetricsCollector
MaxMetricRecords == 3  \* at most this many metrics are recorded

MetricNames == {"db.queries", "memory.usage"}

RECURSIVE SumOver(_, _)
SumOver(f, names) ==
    IF names = {} THEN 0
    ELSE LET n == CHOOSE n \in names : TRUE IN f[n] + SumOver(f, names \ {n})

Recorded == SumOver(mcounters, MetricNames) + Cardinality(mgauges)

\* with self._lock: a threading.Lock, which its own holder cannot take again.
MetricLockFree(l) == l = NoThread

MetricEvent(op, t, counters, gauges) ==
    [op |-> op, thread |-> t, counters |-> counters, gauges |-> gauges]

\* increment_counter(name): the whole with block.
IncrementCounter(t, name) ==
    /\ mpc[t] = "idle"
    /\ Recorded < MaxMetricRecords
    /\ MetricLockFree(mlock)
    /\ mcounters' = [mcounters EXCEPT ![name] = @ + 1]
    /\ mstamp' = None
    /\ mlast' = MetricEvent("increment_counter", t, mcounters', mgauges)
    /\ UNCHANGED <<mlock, mpc, mgauges>>
    /\ UNCHANGED <<brkvars, regvars, cntvars, srchvars, cachevars, lkvars>>

\* set_gauge(name, value): the whole with block.
SetGauge(t, name) ==
    /\ mpc[t] = "idle"
    /\ name \notin mgauges
    /\ Recorded < MaxMetricRecords
    /\ MetricLockFree(mlock)
    /\ mgauges' = mgauges \cup {name}
    /\ mstamp' = None
    /\ mlast' = MetricEvent("set_gauge", t, mcounters, mgauges')
    /\ UNCHANGED <<mlock, mpc, mcounters>>
    /\ UNCHANGED <<brkvars, regvars, cntvars, srchvars, cachevars, lkvars>>

\* get_all_stats, up to its with statement: a valid stats cache is returned
\* at once, otherwise the thread goes on to take the lock.
GetAllStats(t) ==
    /\ mpc[t] = "idle"
    /\ IF mstamp # None
       THEN /\ mlast' = MetricEvent("get_all_stats", t, mcounters, mgauges)
            /\ UNCHANGED mpc
       ELSE /\ mpc' = [mpc EXCEPT ![t] = "stats_lock"]
            /\ UNCHANGED mlast
    /\ UNCHANGED <<mlock, mcounters, mgauges, mstamp>>
    /\ UNCHANGED <<brkvars, regvars, cntvars, srchvars, cachevars, lkvars>>

\* get_all_stats: with self._lock.
StatsAcquire(t) ==
    /\ mpc[t] = "stats_lock"
    /\ MetricLockFree(mlock)
    /\ mlock' = t
    /\ mpc' = [mpc EXCEPT ![t] = "stats_counters"]
    /\ UNCHANGED <<mcounters, mgauges, mstamp, mlast>>
    /\ UNCHANGED <<brkvars, regvars, cntvars, srchvars, cachevars, lkvars>>

\* get_counter_stats: with self._lock: return dict(self._counters); called
\* by a thread on its own or from inside get_all_stats.
GetCounterStats(t) ==
    /\ mpc[t] \in {"idle", "stats_counters"}
    /\ MetricLockFree(mlock)
    /\ IF mpc[t] = "idle"
       THEN /\ mlast' = MetricEvent("get_counter_stats", t, mcounters, mgauges)
            /\ UNCHANGED mpc
       ELSE /\ mpc' = [mpc EXCEPT ![t] = "stats_gauges"]
            /\ UNCHANGED mlast
    /\ UNCHANGED <<mlock, mcounters, mgauges, mstamp>>
    /\ UNCHANGED <<brkvars, regvars, cntvars, srchvars, cachevars, lkvars>>

\* get_gauge_stats: with self._lock: return dict(self._gauges); from inside
\* get_all_stats the rest of that method follows: the stats are cached and
\* returned.
GetGaugeStats(t) ==
    /\ mpc[t] \in {"idle", "stats_gauges"}
    /\ MetricLockFree(mlock)
    /\ IF mpc[t] = "idle"
       THEN /\ mlast' = MetricEvent("get_gauge_stats", t, mcounters, mgauges)
            /\ UNCHANGED <<mpc, mstamp>>
       ELSE /\ mpc' = [mpc EXCEPT ![t] = "idle"]
            /\ mstamp' = now
            /\ mlast' = MetricEvent("get_all_stats", t, mcounters, mgauges)
    /\ UNCHANGED <<mlock, mcounters, mgauges>>
    /\ UNCHANGED <<brkvars, regvars, cntvars, srchvars, cachevars, lkvars>>

StatsStep(t) == StatsAcquire(t) \/ GetCounterStats(t) \/ GetGaugeStats(t)

MetricsNext ==
    \/ \E t \in Threads, n \in MetricNames : IncrementCounter(t, n)
    \/ \E t \in Threads, n \in MetricNames : SetGauge(t, n)
    \/ \E t \in Threads : GetAllStats(t)
    \/ \E t \in Threads : StatsAcquire(t)
    \/ \E t \in Threads : GetCounterStats(t)
    \/ \E t \in Threads : GetGaugeStats(t)

InitMetrics ==
    /\ mlock = NoThread
    /\ mpc = [t \in Threads |-> "idle"]
    /\ mcounters = [n \in MetricNames |-> 0]
    /\ mgauges = {}
    /\ mstamp = None
    /\ mlast = [op |-> "none", thread |-> NoThread,
                counters |-> [n \in MetricNames |-> 0], gauges |-> {}]

InitOthers(threshold, timeout) ==
    /\ InitRegistry
    /\ InitMetrics
    /\ InitLocks
    /\ InitSearch([r \in Resources |-> "active"])
    /\ InitStatements(threshold, timeout)

InitBreaker(threshold, timeout, obs, scen) ==
    /\ cb = NewBreaker(threshold, timeout)
    /\ now = 0
    /\ lock = NoThread
    /\ pc = [t \in Threads |-> "idle"]
    /\ result = [t \in Threads |-> "none"]
    /\ invocations = 0
    /\ ev = [op |-> "init", thread |-> NoThread, at |-> 0,
             pre |-> NewBreaker(threshold, timeout), inv |-> 0,
             entry |-> NewBreaker(threshold, timeout)]
    /\ streak = 0
    /\ scenario = scen
    /\ instants = obs
    /\ forced = None

InitWith(threshold, timeout, obs, scen) ==
    /\ InitOthers(threshold, timeout)
    /\ InitCache
    /\ InitBreaker(threshold, timeout, obs, scen)

Init ==
    \E n \in 1..MaxThreshold, r \in 1..MaxRecovery : InitWith(n, r, 0..MaxTime, -1)

Spec == Init /\ [][Next]_vars

\* Scenario A: a breaker (threshold 3, recovery 60 s) whose clock is observed
\* during the three failures and around the end of the recovery window.
ScenarioInstants ==
    (0..2) \cup ((ScenarioRecovery + 1)..(ScenarioRecovery + 2 + ScenarioSlack))

InitScenarioA ==
    InitWith(ScenarioThreshold, ScenarioRecovery, ScenarioInstants, 0)

SpecScenarioA == InitScenarioA /\ [][Next]_vars

\* Concurrent call()s on one breaker, statement by statement.
SpecStatements ==
    /\ \E n \in 1..MaxThreshold : InitWith(n, 1, {0}, -1)
    /\ [][StatementNext]_vars

\* The operations that take the registry's and the breakers' locks, every
\* thread scheduled fairly and served fairly by the locks it waits for.
SpecLocks ==
    /\ InitWith(1, 1, {0}, -1)
    /\ [][LockNext]_vars
    /\ \A t \in Threads : SF_vars(LockStep(t))

\* The metrics collector used by two threads.
SpecMetrics == InitWith(1, 1, {0}, -1) /\ [][MetricsNext]_vars

\* The cache operations on one backend.
SpecCache == InitWith(1, 1, {0}, -1) /\ [][CacheNext]_vars

\* generate_key on every pair of calls.
InitCacheKey ==
    /\ keyin \in KeyCalls \X KeyCalls
    /\ keyout = NoKeys
    /\ InitStore
    /\ InitOthers(1, 1)
    /\ InitBreaker(1, 1, {0}, -1)

SpecCacheKey == InitCacheKey /\ [][CacheKeyNext]_vars

\* Searches while the table changes, next to an untouched breaker.
SpecSearch == InitWith(1, 1, {0}, -1) /\ [][SearchNext]_vars

\* The registry alone, next to an untouched breaker.
SpecRegistry == InitWith(1, 1, {0}, -1) /\ [][RegistryNext]_vars

\* ---------------------------------------------------------------- claims
CallOps == {"admit", "reject"}
ReturnOps == Outcomes

\* C1: with failure_threshold = N, after k < N consecutive expected failures
\* from Closed/0 the breaker is still Closed, and after the N-th it is Open.
C1_ThresholdTrip ==
    (ev.op = "expected" /\ streak >= 1) =>
        /\ streak < cb.failure_threshold => cb.state = CLOSED
        /\ streak = cb.failure_threshold => cb.state = OPEN

C1_Witness ==
    /\ ev.op = "expected"
    /\ streak = cb.failure_threshold
    /\ cb.failure_threshold >= 2
    /\ cb.state = OPEN

\* C2: a call on an Open breaker whose last failure was at T0 is rejected with
\* CircuitBreakerError, without invoking the function, before T0 + R; at or
\* after T0 + R it moves the breaker to HalfOpen and invokes the function once.
C2_LazyRecovery ==
    (ev.op \in CallOps /\ ev.pre.state = OPEN /\ ev.pre.last_failure_time # None) =>
        IF ev.at < ev.pre.last_failure_time + ev.pre.recovery_timeout
        THEN /\ ev.op = "reject"
             /\ result[ev.thread] = "CircuitBreakerError"
             /\ invocations = ev.inv
             /\ cb.state = OPEN
        ELSE /\ ev.op = "admit"
             /\ invocations = ev.inv + 1
             /\ cb.state = HALF_OPEN

C2_Witness ==
    /\ ev.op = "admit"
    /\ ev.pre.state = OPEN
    /\ ev.pre.recovery_timeout > 0
    /\ ev.at = ev.pre.last_failure_time + ev.pre.recovery_timeout
    /\ cb.state = HALF_OPEN

\* C3: from HalfOpen a successful trial leaves the breaker Closed with
\* failure_count 0, a failed trial leaves it Open with last_failure_time set
\* to the time of that failure.
C3_HalfOpenExit ==
    /\ (ev.op = "returns" /\ ev.pre.state = HALF_OPEN) =>
            (cb.state = CLOSED /\ cb.failure_count = 0)
    /\ (ev.op = "expected" /\ ev.pre.state = HALF_OPEN) =>
            (cb.state = OPEN /\ cb.last_failure_time = ev.at)

C3_Witness ==
    /\ ev.op = "expected"
    /\ ev.pre.state = HALF_OPEN
    /\ ev.pre.last_failure_time # None
    /\ ev.pre.last_failure_time < ev.at
    /\ cb.state = OPEN

\* C4 (as stated): in Scenario A the next call, attempted at t = 61, moves the
\* breaker to HalfOpen and is admitted.
C4_AdmittedAt61 ==
    (scenario = 4 /\ ev.at = ScenarioRecovery + 1) =>
        (ev.op = "admit" /\ cb.state = HALF_OPEN /\ invocations = ev.inv + 1)

\* C4 (amended): in Scenario A the breaker is Open at t = 2 with
\* last_failure_time = 2; the next call is rejected without invoking the
\* function when attempted before t = 62 (so at t = 61), and moves the breaker
\* to HalfOpen and is admitted when attempted at t = 62 or later.
C4_AdmittedAt62 ==
    /\ scenario = 3 => (cb.state = OPEN /\ cb.last_failure_time = 2)
    /\ (scenario = 4 /\ ev.at < ScenarioRecovery + 2) =>
            /\ ev.op = "reject"
            /\ result[ev.thread] = "CircuitBreakerError"
            /\ invocations = ev.inv
            /\ cb.state = OPEN
    /\ (scenario = 4 /\ ev.at >= ScenarioRecovery + 2) =>
            /\ ev.op = "admit"
            /\ invocations = ev.inv + 1
            /\ cb.state = HALF_OPEN

C4_Witness ==
    /\ scenario = 4
    /\ ev.at = ScenarioRecovery + 2
    /\ ev.op = "admit"
    /\ cb.state = HALF_OPEN

\* C5: once an Open breaker has become HalfOpen, no second call is admitted
\* while the state is still HalfOpen, whatever the outcome of the trial.
C5_SingleTrial ==
    ~(ev.op = "admit" /\ ev.pre.state = HALF_OPEN)

\* C6 (as stated): a call whose function raises an unexpected exception leaves
\* state, failure_count and last_failure_time as the call found them, and the
\* exception reaches the caller.
C6_CallUnchanged ==
    ev.op = "unexpected" =>
        /\ cb.state = ev.entry.state
        /\ cb.failure_count = ev.entry.failure_count
        /\ cb.last_failure_time = ev.entry.last_failure_time
        /\ result[ev.thread] = "unexpected"

\* C6 (amended): such a call never changes failure_count or last_failure_time
\* and the exception reaches the caller unchanged; it leaves the state as it
\* was when the function was invoked, so the only state change it can make is
\* the admission's Open -> HalfOpen, which the exception does not undo.
C6_UnexpectedNotCounted ==
    ev.op = "unexpected" =>
        /\ cb.failure_count = ev.entry.failure_count
        /\ cb.last_failure_time = ev.entry.last_failure_time
        /\ result[ev.thread] = "unexpected"
        /\ cb.state = ev.pre.state
        /\ \/ cb.state = ev.entry.state
           \/ ev.entry.state = OPEN /\ cb.state = HALF_OPEN

C6_Witness ==
    /\ ev.op = "unexpected"
    /\ ev.entry.state = CLOSED
    /\ ev.entry.failure_count >= 1
    /\ cb.state = CLOSED

\* C7: every call() adds exactly 1 to total_calls, rejected or not; the entry
\* of a call changes none of success_count, failure_count, last_failure_time,
\* and a rejected call changes nothing but total_calls.
C7_TotalCalls ==
    /\ ev.op \in CallOps =>
            /\ cb.total_calls = ev.pre.total_calls + 1
            /\ cb.success_count = ev.pre.success_count
            /\ cb.failure_count = ev.pre.failure_count
            /\ cb.last_failure_time = ev.pre.last_failure_time
    /\ ev.op = "reject" =>
            /\ cb = [ev.pre EXCEPT !.total_calls = @ + 1]
            /\ invocations = ev.inv
    /\ ev.op \in ReturnOps =>
            /\ cb.total_calls = ev.entry.total_calls + 1
            /\ invocations = ev.inv

C7_Witness ==
    /\ ev.op = "reject"
    /\ ev.pre.total_calls >= 1
    /\ cb.total_calls = ev.pre.total_calls + 1

\* C8: from Closed with failure_count = k < failure_threshold, one successful
\* call resets failure_count to 0 and leaves the state Closed.
C8_SuccessForgives ==
    (ev.op = "returns" /\ ev.pre.state = CLOSED
        /\ ev.pre.failure_count < ev.pre.failure_threshold) =>
            (cb.failure_count = 0 /\ cb.state = CLOSED)

C8_Witness ==
    /\ ev.op = "returns"
    /\ ev.pre.state = CLOSED
    /\ ev.pre.failure_count = 2
    /\ cb.failure_count = 0

\* C9: when the function raises an expected exception the caller receives that
\* exception, also on the call that opens the breaker; CircuitBreakerError is
\* raised exactly for the calls rejected at admission, whose function was not
\* invoked.
C9_OriginalError ==
    /\ ev.op = "expected" => result[ev.thread] = "expected"
    /\ ev.op \in CallOps \cup ReturnOps =>
            (result[ev.thread] = "CircuitBreakerError" <=> ev.op = "reject")
    /\ ev.op = "reject" => invocations = ev.inv

C9_Witness ==
    /\ ev.op = "expected"
    /\ ev.pre.state = CLOSED
    /\ cb.state = OPEN
    /\ result[ev.thread] = "expected"

\* C10: in every reachable state, state = Open implies last_failure_time is
\* not None.
C10_OpenHasFailureTime ==
    cb.state = OPEN => cb.last_failure_time # None

C10_Witness ==
    /\ ev.op = "force_open"
    /\ ev.pre.last_failure_time = None
    /\ cb.state = OPEN

\* C11: reset() in any breaker state sets state = Closed, failure_count = 0
\* and last_failure_time = None and leaves success_count, total_calls and the
\* configured thresholds as they were.
C11_ResetFrame ==
    ev.op = "reset" =>
        /\ cb.state = CLOSED
        /\ cb.failure_count = 0
        /\ cb.last_failure_time = None
        /\ cb.success_count = ev.pre.success_count
        /\ cb.total_calls = ev.pre.total_calls
        /\ cb.failure_threshold = ev.pre.failure_threshold
        /\ cb.recovery_timeout = ev.pre.recovery_timeout

C11_Witness ==
    /\ ev.op = "reset"
    /\ ev.pre.state = OPEN
    /\ ev.pre.failure_count >= 1
    /\ ev.pre.success_count >= 1
    /\ cb.state = CLOSED

\* C12: force_open() in any breaker state sets state = Open and
\* last_failure_time = now and leaves failure_count, success_count and
\* total_calls as they were; every call() made less than recovery_timeout after
\* it is rejected with CircuitBreakerError without invoking the function.
C12_ForceOpen ==
    /\ ev.op = "force_open" =>
            /\ cb.state = OPEN
            /\ cb.last_failure_time = ev.at
            /\ cb.failure_count = ev.pre.failure_count
            /\ cb.success_count = ev.pre.success_count
            /\ cb.total_calls = ev.pre.total_calls
    /\ (ev.op \in CallOps /\ forced # None
            /\ ev.at < forced + cb.recovery_timeout) =>
            /\ ev.op = "reject"
            /\ result[ev.thread] = "CircuitBreakerError"
            /\ invocations = ev.inv

C12_Witness ==
    /\ ev.op = "reject"
    /\ forced # None
    /\ ev.at > forced
    /\ ev.pre.failure_count >= 1
    /\ ev.pre.failure_count < cb.failure_threshold

\* C13: threads asking for the same name all receive the same instance and
\* exactly one instance is constructed and registered for that name; different
\* names map to different instances.
Returned == {t \in Threads : got[t].id # 0}

C13_Singleton ==
    /\ \A t \in Returned, u \in Returned :
            (got[t].name = got[u].name) <=> (got[t].id = got[u].id)
    /\ \A t \in Returned : objs[got[t].id].name = got[t].name
    /\ \A n \in Names :
            Cardinality({i \in 1..Len(objs) : objs[i].name = n})
                = IF instances[n] # 0 THEN 1 ELSE 0

C13_Witness ==
    /\ \E t \in Returned, u \in Returned :
            /\ t # u
            /\ got[t].id = got[u].id
            /\ got[t].site # got[u].site
    /\ Len(objs) >= 2

\* C14: get_circuit_breaker for a name already registered returns the existing
\* instance and changes neither the registry nor any breaker's thresholds,
\* state or counters; the thresholds of the first registration stay.
C14_FirstWins ==
    /\ rev.op \in {"begin", "lookup", "return"} =>
            (instances = rev.instances /\ objs = rev.objs)
    /\ rev.op = "create" =>
            /\ rev.instances[rev.args.name] = 0
            /\ \A i \in 1..Len(rev.objs) : objs[i] = rev.objs[i]
    /\ rev.op = "return" =>
            got[rev.thread].id = instances[rev.args.name]

C14_Witness ==
    /\ rev.op = "return"
    /\ got[rev.thread].id # 0
    /\ got[rev.thread].failure_threshold
            # objs[got[rev.thread].id].b.failure_threshold
    /\ objs[got[rev.thread].id].b.total_calls >= 1

\* C15: the breakers returned by ServiceCircuitBreakers' accessors are named
\* redis, elasticsearch and database and have failure_threshold 3, 5 and 10.
ServiceSites ==
    {"redis_circuit_breaker", "elasticsearch_circuit_breaker", "database_circuit_breaker"}

C15_ServiceConfigs ==
    \A t \in Returned :
        got[t].site \in ServiceSites =>
            /\ objs[got[t].id].name = got[t].name
            /\ objs[got[t].id].b.failure_threshold = got[t].failure_threshold

\* C16: while one thread's wrapped function is executing inside call(),
\* another thread's call(), reset() or force_open() on the same breaker can
\* proceed without waiting for that function to return.
C16_NoBlocking ==
    \A t \in Threads, u \in Threads :
        (pc[t] = "func" /\ u # t /\ pc[u] = "idle") =>
            /\ ENABLED Reset(u)
            /\ ENABLED ForceOpen(u)
            /\ cb.total_calls < MaxCalls => ENABLED CallBegin(u)

\* C17: under any interleaving of concurrent call()s no counter update is
\* lost: once K calls have completed, total_calls is K and success_count is the
\* number of calls whose function returned normally; if all K returned
\* normally the breaker is Closed with failure_count = 0.
C17_NoLostUpdate ==
    (\A t \in Threads : kpc[t] = "idle") =>
        /\ kb.total_calls = ktally.completed
        /\ kb.success_count = ktally.returned
        /\ ktally.returned = ktally.completed =>
                (kb.state = CLOSED /\ kb.failure_count = 0)

C17_Witness ==
    /\ \A t \in Threads : kpc[t] = "idle"
    /\ ktally.completed = MaxStmtCalls
    /\ ktally.returned = ktally.completed
    /\ kb.success_count = MaxStmtCalls

ServiceOps == {"SearchService.text_search", "SearchService.geo_search"}
TextOps == {"SearchService.text_search", "DatabaseSearchFallback.text_search"}
GeoOps == {"SearchService.geo_search", "DatabaseSearchFallback.geo_search"}

\* The reference linear scan: the active rows matching the last search's
\* predicate and filters.
ReferenceScan ==
    ApplyFilters(IF slast.op \in TextOps
                 THEN TextMatch(ActiveRows(sdb), slast.query)
                 ELSE GeoMatch(ActiveRows(sdb), slast.radius),
                 slast.filters)

\* C18: a SearchService search raises nothing to its caller: unless the
\* primary engine answered, the caller gets the database fallback's result,
\* tagged fallback = True and source = database; and once the breaker is Open
\* the search still returns such a result without invoking the primary engine.
C18_AlwaysFallback ==
    slast.op \in ServiceOps =>
        /\ slast.result.exc = ""
        /\ slast.primary_raised # "" =>
              (slast.result.fallback /\ slast.result.source = "database")
        /\ slast.pre.state = OPEN =>
              (~slast.invoked /\ slast.result.fallback)

\* C19: the fallback result of a text or geo search has as total the number
\* of active rows matching the predicate and the filters, and as hits a page
\* of exactly those rows.
C19_FallbackExact ==
    (slast.op \in TextOps \cup GeoOps /\ slast.result.source # "elasticsearch") =>
        /\ slast.result.exc = ""
        /\ slast.result.total = Cardinality(ReferenceScan)
        /\ \A i \in 1..Len(slast.result.hits) : slast.result.hits[i] \in ReferenceScan
        /\ Len(slast.result.hits) =
              LET rest == Cardinality(ReferenceScan) - (slast.page - 1) * slast.page_size
              IN IF rest < 0 THEN 0
                 ELSE IF rest < slast.page_size THEN rest ELSE slast.page_size

\* C20: the facet counts of a fallback result are, for every type and city,
\* the number of active rows matching the same query and filters.
C20_FacetsMatch ==
    (slast.op \in TextOps \cup GeoOps /\ slast.result.source # "elasticsearch") =>
        /\ slast.result.exc = ""
        /\ slast.result.aggregations = CalculateAggregations(ReferenceScan)

SearchKinds ==
    ServiceOps \cup {"SearchService.autocomplete", "SearchService.filter_by_type"}

\* C21: every search kind reaches the primary engine only through call() of
\* the shared elasticsearch breaker: an invocation is one more total_calls on
\* that breaker, no search invokes the engine while the breaker is Open inside
\* its recovery window, and a primary failure is recorded by the breaker.
C21_OnlyThroughBreaker ==
    (slast.op \in SearchKinds /\ slast.invoked) =>
        /\ esb.total_calls = slast.pre.total_calls + 1
        /\ ~(slast.pre.state = OPEN /\ ~ShouldAttemptReset(slast.pre, now))
        /\ slast.primary_raised # "" =>
              esb.failure_count = slast.pre.failure_count + 1

C23_ErrorOnlyWhenExhausted ==
    slast.op \in ServiceOps =>
        (slast.result.exc # "" <=>
            (slast.primary_raised # "" /\ SliceRaises(slast.page, slast.page_size)))

\* The keyword arguments as entries, whatever their order.
Entries(kwargs) == {kwargs[i] : i \in 1..Len(kwargs)}

SameCall(a, b) ==
    a.category = b.category /\ a.args = b.args /\ Entries(a.kwargs) = Entries(b.kwargs)

\* The values of a call are all of a type json encodes by itself.
NativeValues(a) ==
    /\ \A i \in 1..Len(a.args) : a.args[i].type \in {"int", "str"}
    /\ \A i \in 1..Len(a.kwargs) : a.kwargs[i][2].type \in {"int", "str"}

\* C24: two generate_key calls with the same category, positional args and
\* keyword entries (in any order) give the same key, and two calls that differ
\* in the category or in any argument value give different keys.
C24_KeyInjective ==
    keyout # NoKeys =>
        (SameCall(keyin[1], keyin[2]) <=> keyout[1] = keyout[2])

\* C24 as amended: the same call gives the same key whatever the order of the
\* keyword entries; calls differ in their key when they differ in an argument
\* value and all values are str or int, or when they differ in the category
\* and both categories are among PREFIXES.
C24_KeyFunction ==
    keyout # NoKeys =>
        /\ SameCall(keyin[1], keyin[2]) => keyout[1] = keyout[2]
        /\ ( /\ ~SameCall(keyin[1], keyin[2])
             /\ NativeValues(keyin[1]) /\ NativeValues(keyin[2])
             /\ \/ keyin[1].category = keyin[2].category
                \/ {keyin[1].category, keyin[2].category} \subseteq DOMAIN PREFIXES )
           => keyout[1] # keyout[2]

C24_Witness ==
    /\ keyout # NoKeys
    /\ Len(keyin[1].kwargs) > 1
    /\ keyin[1].kwargs # keyin[2].kwargs
    /\ SameCall(keyin[1], keyin[2])
    /\ keyout[1] = keyout[2]

\* C25: with a healthy backend a get returns the value last set for the same
\* key arguments and not deleted, cleared or expired since, and is a miss
\* otherwise: after a delete for the same arguments, or when only arguments
\* differing in some value were set.
C25_RoundTrip ==
    (clast.op = "get" /\ ~clast.failed) =>
        clast.result.value = cshadow[clast.call]

\* C25 as amended: the same, for key arguments that are all str or int values.
C25_RoundTripNative ==
    (clast.op = "get" /\ ~clast.failed /\ cnative) =>
        clast.result.value = cshadow[clast.call]

C25_Witness ==
    /\ clast.op = "get" /\ ~clast.failed /\ cnative
    /\ clast.result.value \in CacheValues
    /\ \E c \in CacheCalls : c[1] = clast.call[1] /\ c # clast.call /\ cshadow[c] = Missing

ResourceCalls(id) == {c \in CacheCalls : c[1] = IntValue(id)}

\* C26: after invalidate_resource(r) on a healthy backend no entry of
\* resource r is left, in any language, and no entry of another resource has
\* been removed.
C26_InvalidateExact ==
    (clast.op = "invalidate_resource" /\ ~clast.failed) =>
        /\ \A c \in ResourceCalls(clast.call[1].text) : cstore[KeyOf(c)] = Missing
        /\ clast.removed \subseteq {KeyOf(c) : c \in ResourceCalls(clast.call[1].text)}

\* C27: a backend failure during get, set, delete, delete_pattern or
\* clear_all raises nothing: get returns a miss, set, delete and clear_all
\* return False, delete_pattern returns 0.
C27_FailuresContained ==
    (clast.failed /\ clast.op \in {"get", "set", "delete", "invalidate_resource", "clear_all"}) =>
        /\ clast.result.exc = ""
        /\ clast.result.value = Missing
        /\ clast.result.ok = FALSE
        /\ clast.result.count = 0

C27_Witness ==
    /\ clast.op = "get" /\ clast.failed
    /\ cstore[KeyOf(clast.call)] # Missing
    /\ clast.result.value = Missing /\ clast.result.exc = ""

\* C28: when the backend fails on the lookup or on the store of a function
\* wrapped with cache_result, the function is still invoked, its result is
\* returned and nothing is raised.
C28_CacheAdvisory ==
    (clast.op = "cache_result" /\ clast.failed) =>
        /\ clast.invoked
        /\ clast.result.exc = ""
        /\ clast.result.value = clast.value

\* C29: get_all_stats always terminates: a thread inside it that no other
\* thread keeps out of the lock can take its next step; and the snapshot it
\* returns holds every metric recorded so far.
C29_GetAllStatsTerminates ==
    /\ \A t \in Threads :
          (mpc[t] # "idle" /\ mlock \in {NoThread, t}) => ENABLED StatsStep(t)
    /\ mlast.op = "get_all_stats" =>
          (mlast.counters = mcounters /\ mlast.gauges = mgauges)

\* C30: no deadlock among call, get_stats, reset, force_open,
\* get_circuit_breaker, get_all_stats and reset_all: a thread that holds a
\* breaker's lock never asks for the registry lock, while an operation is
\* under way some thread can take a step, and every operation started
\* eventually completes.
C30_LockOrder ==
    \A t \in Threads : \A n \in LockNames :
        cblock[n] = t => lop[t].op \notin RegistryOps

C30_SomeStep ==
    (\E t \in Threads : lop[t].op # "idle") =>
        \E t \in Threads : ENABLED LockStep(t)

C30_NoDeadlock ==
    /\ [](C30_LockOrder /\ C30_SomeStep)
    /\ \A t \in Threads : (lop[t].op # "idle") ~> (lop[t].op = "idle")

\* A thread inside get_all_stats or reset_all holds the registry lock and
\* has yet to visit a breaker whose lock another thread holds inside call.
C30_Witness ==
    \E t \in Threads, u \in Threads, n \in LockNames :
        /\ t # u
        /\ mgrlock = t /\ n \in lop[t].todo
        /\ cblock[n] = u /\ lop[u].pc = "func"

====
